---- MODULE Spec2Model ----
(***************************************************************************)
(* vox2brs: conversion of a MagicaVoxel model set into Brickadia bricks.   *)
(* The model follows vox2brs/src/lib.rs (the conversion), and the two      *)
(* callers vox2brs-cli/src/main.rs and vox2brs-gui/src/app.rs.             *)
(***************************************************************************)
EXTENDS Integers, Sequences, FiniteSets, TLC

VARIABLES
    rot_pos,      \* row_major_rotation: argument pos
    rot_byte,     \* row_major_rotation: argument rotation_byte
    rot_out,      \* row_major_rotation: what the call produced (NoResult before)
    pc,           \* position inside vox2brs
    in_vox_data,  \* argument: [palette, models, copies]
    mode,         \* argument: BrickOutputMode
    width,        \* argument: Option<u32>
    height,       \* argument: Option<u32>
    simplify,     \* argument
    rampify,      \* argument
    colors,       \* brs_save.header2.colors
    save_bricks,  \* brs_save.bricks
    inst,         \* index of the instance the placement loops are at
    bricks,       \* the unit bricks moved out of the save (line 192)
    min_bounds,   \* line 222
    max_bounds,   \* line 223
    grid_size,    \* line 249
    grid,         \* line 259, a flat array indexed from 0
    occupied,     \* flat indices the ramp generator has claimed
    scan_t,       \* how many iterations of the scan loops have run
    merge_input,  \* history: the grid as the merger's scan found it
    boxes,        \* history: the boxes the merger emitted, in cells
    program,      \* which executable runs: "cli", "gui", or "lib" for neither
    app,          \* gui: the fields of Vox2BrsApp the conversion reads
    call          \* the arguments of the last call of vox2brs by a caller

rotvars == <<rot_pos, rot_byte, rot_out>>
argvars == <<in_vox_data, mode, width, height, simplify, rampify>>
gridvars == <<bricks, min_bounds, max_bounds, grid_size, grid, occupied,
              scan_t, merge_input, boxes>>
callvars == <<program, app, call>>
vars == <<program, app, call, rot_pos, rot_byte, rot_out, pc, in_vox_data, mode, width, height,
          simplify, rampify, colors, save_bricks, inst, bricks, min_bounds,
          max_bounds, grid_size, grid, occupied, scan_t, merge_input, boxes>>

(***************************************************************************)
(* Bounds of the model.                                                    *)
(***************************************************************************)
MaxCoord == 2

(***************************************************************************)
(* Integer helpers.                                                        *)
(***************************************************************************)
Abs(a) == IF a < 0 THEN -a ELSE a

\* Rust's i32 `/`: the quotient truncated toward zero.
Quot(a, b) ==
    IF (a >= 0) = (b > 0) THEN Abs(a) \div Abs(b) ELSE -(Abs(a) \div Abs(b))

\* (v >> n) & 1 on an unsigned byte.
Bit(v, n) == (v \div (2 ^ n)) % 2

(***************************************************************************)
(* Rotation Mapper: row_major_rotation (lib.rs 102-129).                   *)
(***************************************************************************)
Ok(p) == [ok |-> TRUE, pos |-> p]
Panicked == [ok |-> FALSE, pos |-> <<0, 0, 0>>]
NoResult == [ok |-> FALSE, pos |-> <<1, 1, 1>>]

r1_i(rotation_byte) == rotation_byte % 4

\* r2_i with the shift off by one bit.
r2_i_shift1(rotation_byte) == (rotation_byte \div 2) % 4

r2_i(rotation_byte) == (rotation_byte \div 4) % 4

r1_sign(rotation_byte) == IF Bit(rotation_byte, 4) = 1 THEN -1 ELSE 1
r2_sign(rotation_byte) == IF Bit(rotation_byte, 5) = 1 THEN -1 ELSE 1
r3_sign(rotation_byte) == IF Bit(rotation_byte, 6) = 1 THEN -1 ELSE 1

\* The matrix without line 121: row Z keeps its sign in column r2_i.
RotationMatrix_keep_r2(rotation_byte) ==
    LET a == r1_i(rotation_byte)
        b == r2_i(rotation_byte)
        m0 == [c \in 0..2 |-> IF c = a THEN r1_sign(rotation_byte) ELSE 0]
        m1 == [c \in 0..2 |-> IF c = b THEN r2_sign(rotation_byte) ELSE 0]
        m2 == [c \in 0..2 |-> IF c = a THEN 0 ELSE r3_sign(rotation_byte)]
    IN  <<m0, m1, m2>>

\* The matrix m after lines 112-121, rows and columns indexed 0..2. The
\* assignments are applied in the order of the source.
RotationMatrix(rotation_byte) ==
    LET a == r1_i(rotation_byte)
        b == r2_i(rotation_byte)
        m0 == [c \in 0..2 |-> IF c = a THEN r1_sign(rotation_byte) ELSE 0]
        m1 == [c \in 0..2 |-> IF c = b THEN r2_sign(rotation_byte) ELSE 0]
        m2 == [c \in 0..2 |-> IF c = a \/ c = b THEN 0 ELSE r3_sign(rotation_byte)]
    IN  <<m0, m1, m2>>

\* Indexing a [i32; 3] row with 3 is an out-of-bounds panic (lines 118-121).
IndexInRange(rotation_byte) == r1_i(rotation_byte) < 3 /\ r2_i(rotation_byte) < 3

row_major_rotation(pos, rotation_byte) ==
    IF ~IndexInRange(rotation_byte) THEN Panicked
    ELSE LET m == RotationMatrix(rotation_byte)
             x == pos[1]
             y == pos[2]
             z == pos[3]
         IN  Ok(<< x * m[1][0] + y * m[1][1] + z * m[1][2],
                   x * m[2][0] + y * m[2][1] + z * m[2][2],
                   x * m[3][0] + y * m[3][1] + z * m[3][2] >>)

(***************************************************************************)
(* Options, as Rust's Option<T>.                                           *)
(***************************************************************************)
NoneByte == [some |-> FALSE, val |-> 0]
NonePos == [some |-> FALSE, val |-> <<0, 0, 0>>]
Some(v) == [some |-> TRUE, val |-> v]
unwrap_or(opt, default) == IF opt.some THEN opt.val ELSE default

(***************************************************************************)
(* Color Corrector (lib.rs 28-43, 63-76).                                  *)
(***************************************************************************)
\* gamma_correction on one channel: ((c / 255.0) powf 2.2 * 255.0) as u8, for
\* the channel values the palettes of the model use.
GammaChannel(c) ==
    CASE c = 0 -> 0
      [] c = 64 -> 12
      [] c = 128 -> 55
      [] c = 200 -> 149
      [] c = 255 -> 255

gamma_correction(r, g, b) == <<GammaChannel(r), GammaChannel(g), GammaChannel(b)>>

\* The alpha of the input kept.
OutputAlpha_input(vox_color) == vox_color.a

\* The alpha of an output color (line 72).
OutputAlpha(vox_color) == 255

CorrectedColor(vox_color) ==
    LET rgb == gamma_correction(vox_color.r, vox_color.g, vox_color.b)
    IN  [r |-> rgb[1], g |-> rgb[2], b |-> rgb[3], a |-> OutputAlpha(vox_color)]

\* The loop of lines 64-76: one push per palette entry, in palette order.
PushColors(save_colors, palette) ==
    save_colors \o [k \in 1..Len(palette) |-> CorrectedColor(palette[k])]

(***************************************************************************)
(* Placement Emitter (lib.rs 80-96, 131-185).                              *)
(***************************************************************************)
brick_asset_index == 0
microbrick_asset_index == 1
ramp_asset_index == 2
wedge_asset_index == 3

\* brick_size of lines 80-96: <<half width, half height>>.
BrickSize(m, w, h) ==
    CASE m = "Brick" -> <<unwrap_or(w, 1) * 5, unwrap_or(h, 3) * 6>>
      [] m = "Plate" -> <<unwrap_or(w, 1) * 5, unwrap_or(h, 1) * 2>>
      [] m = "MicroBrick" -> <<unwrap_or(w, 1), unwrap_or(h, 1)>>

\* The Brick asset in every mode.
BrickAsset_always_brick(m) == brick_asset_index

\* brick_asset of lines 80-96.
BrickAsset(m) ==
    IF m = "MicroBrick" THEN microbrick_asset_index ELSE brick_asset_index

brick_size == BrickSize(mode, width, height)
brick_asset == BrickAsset(mode)

\* Lines 141-145: the voxel's offset from the model's centre. The sizes are
\* not negative, so Rust's `/ 2` is the floor.
CenteredOffset(voxel, size) ==
    << voxel.position[1] - size[1] \div 2,
       voxel.position[2] - size[2] \div 2,
       voxel.position[3] - size[3] \div 2 >>

\* Lines 161-165 without the inversion of Y.
BrickPosition_no_flip(pos, bs) ==
    << pos[1] * bs[1] * 2 + bs[1],
       pos[2] * bs[1] * 2 + bs[1],
       pos[3] * bs[2] * 2 + bs[2] >>

\* Lines 161-165: lattice position to brick centre, Y inverted.
BrickPosition(pos, bs) ==
    << pos[1] * bs[1] * 2 + bs[1],
       (-pos[2]) * bs[1] * 2 + bs[1],
       pos[3] * bs[2] * 2 + bs[2] >>

\* Line 167: the zero-based color index of a brick.
BrickColorIndex(voxel) == voxel.color_index - 1

\* Lines 141-171 for one voxel; vox_pos is the offset after the rotation.
VoxelBrick(voxel, vox_pos, pos, bs, asset) ==
    [ size |-> <<bs[1], bs[1], bs[2]>>,
      asset_name_index |-> asset,
      position |-> BrickPosition(<<vox_pos[1] + pos[1], vox_pos[2] + pos[2],
                                   vox_pos[3] + pos[3]>>, bs),
      color |-> BrickColorIndex(voxel),
      owner_index |-> 1 ]

\* Lines 147-149.
RotatedOffset(voxel, size, rot_option) ==
    IF rot_option.some
    THEN row_major_rotation(CenteredOffset(voxel, size), rot_option.val)
    ELSE Ok(CenteredOffset(voxel, size))

\* model_to_bricks whose loop stops one voxel short.
model_to_bricks_drop_last(model, pos, rot_option, bs, asset) ==
    IF rot_option.some /\ ~row_major_rotation(pos, rot_option.val).ok
    THEN [ok |-> FALSE, pushed |-> <<>>]
    ELSE [ok |-> TRUE,
          pushed |-> [k \in 1..(Len(model.voxels) - 1) |->
              VoxelBrick(model.voxels[k],
                         RotatedOffset(model.voxels[k], model.size, rot_option).pos,
                         pos, bs, asset)]]

\* model_to_bricks (lines 131-173): the bricks pushed for one instance, or a
\* panic of row_major_rotation (called at line 135 even for an empty model).
model_to_bricks(model, pos, rot_option, bs, asset) ==
    IF rot_option.some /\ ~row_major_rotation(pos, rot_option.val).ok
    THEN [ok |-> FALSE, pushed |-> <<>>]
    ELSE [ok |-> TRUE,
          pushed |-> [k \in 1..Len(model.voxels) |->
              VoxelBrick(model.voxels[k],
                         RotatedOffset(model.voxels[k], model.size, rot_option).pos,
                         pos, bs, asset)]]

\* VoxFile::get_model_by_id (called at line 181): the index of the model with
\* that id, 0 when there is none.
get_model_by_id(models, id) ==
    LET found == {k \in 1..Len(models) : models[k].id = id}
    IN  IF found = {} THEN 0 ELSE CHOOSE k \in found : \A o \in found : k <= o

NumInstances == Len(in_vox_data.models) + Len(in_vox_data.copies)

(***************************************************************************)
(* Grid Builder (lib.rs 190-286).                                          *)
(***************************************************************************)
I32_MAX == 2147483647
I32_MIN == -I32_MAX - 1

\* a - b on i32: whether it overflows and, if so, the two's complement value
\* an unchecked build computes (a - b + 2^32 or a - b - 2^32).
SubOverflows(a, b) ==
    \/ b > 0 /\ a < I32_MIN + b
    \/ b < 0 /\ a > I32_MAX + b

SubWrapped(a, b) ==
    IF b > 0 /\ a < I32_MIN + b THEN (a - I32_MIN) + (I32_MAX - b) + 1
    ELSE IF b < 0 /\ a > I32_MAX + b THEN (a - I32_MAX) + (I32_MIN - b) - 1
    ELSE a - b

MinOf(S) == CHOOSE v \in S : \A o \in S : v <= o
MaxOf(S) == CHOOSE v \in S : \A o \in S : v >= o

\* Line 190: whether the simplification runs.
Simplifying == simplify \/ rampify

\* The unit size the simplification works in (lines 197-202).
RampUnit == <<5, 2>>
SimplifyUnit == IF rampify THEN RampUnit ELSE brick_size

\* fix_brick_pos (lines 204-219): the cell of a brick's minimum corner.
fix_brick_pos(brick, unit) ==
    << Quot(brick.position[1] - brick.size[1], unit[1] * 2),
       Quot(brick.position[2] - brick.size[2], unit[1] * 2),
       Quot(brick.position[3] - brick.size[3], unit[2] * 2) >>

\* Lines 227-229 and 270-272: a brick's extent in cells.
CellExtent(brick, unit) ==
    << Quot(brick.size[1], unit[1]),
       Quot(brick.size[2], unit[1]),
       Quot(brick.size[3], unit[2]) >>

\* Lines 237-241 without the `+ 1`: the exclusive upper corner itself.
UpperCorner_tight(brick, unit) ==
    LET pos == fix_brick_pos(brick, unit)
        ext == CellExtent(brick, unit)
    IN  <<pos[1] + ext[1], pos[2] + ext[2], pos[3] + ext[3]>>

\* Lines 237-241: what max_bounds is raised to by one brick.
UpperCorner(brick, unit) ==
    LET pos == fix_brick_pos(brick, unit)
        ext == CellExtent(brick, unit)
    IN  <<pos[1] + ext[1] + 1, pos[2] + ext[2] + 1, pos[3] + ext[3] + 1>>

\* Lines 222-247: the folds of min and max over the bricks.
MinBounds(bs, unit) ==
    [a \in 1..3 |->
        MinOf({I32_MAX} \cup {fix_brick_pos(bs[k], unit)[a] : k \in 1..Len(bs)})]

MaxBounds(bs, unit) ==
    [a \in 1..3 |->
        MaxOf({I32_MIN} \cup {UpperCorner(bs[k], unit)[a] : k \in 1..Len(bs)})]

\* get_index (lines 255-257).
get_index(pos, gs) == pos[1] + pos[2] * gs[1] + pos[3] * gs[1] * gs[2]

NoneCell == -1
GridLen(gs) == gs[1] * gs[2] * gs[3]
EmptyGrid(gs) == [n \in 0..(GridLen(gs) - 1) |-> NoneCell]

\* The flat indices of the box at pos with extent ext.
BoxIndices(pos, ext, gs) ==
    { get_index(<<pos[1] + i, pos[2] + j, pos[3] + k>>, gs) :
        i \in 0..(ext[1] - 1), j \in 0..(ext[2] - 1), k \in 0..(ext[3] - 1) }

\* Lines 262-272 for one brick: the flat indices of the cells it covers.
BrickIndices(brick, unit, lo, gs) ==
    LET fixed == fix_brick_pos(brick, unit)
        pos == <<fixed[1] - lo[1], fixed[2] - lo[2], fixed[3] - lo[3]>>
    IN  BoxIndices(pos, CellExtent(brick, unit), gs)

\* Line 280: the color index is stored as u8.
CellColor(brick) == brick.color % 256

\* Lines 259-286: the bricks are written in order into an empty grid, so a
\* cell ends with the color of the last brick that covers it.
FillGrid(bs, unit, lo, gs) ==
    [n \in 0..(GridLen(gs) - 1) |->
        LET covering == {k \in 1..Len(bs) : n \in BrickIndices(bs[k], unit, lo, gs)}
        IN  IF covering = {} THEN NoneCell ELSE CellColor(bs[MaxOf(covering)])]

(***************************************************************************)
(* Greedy Box Merger (lib.rs 327-426).                                     *)
(***************************************************************************)
MaxExtent == 64

\* box_remove that clears the lowest layer of the box only.
box_remove_one_layer(g, pos, size, gs) ==
    LET cleared == BoxIndices(pos, <<size[1], size[2], 1>>, gs)
    IN  [n \in DOMAIN g |-> IF n \in cleared THEN NoneCell ELSE g[n]]

\* box_remove (lines 327-340).
box_remove(g, pos, size, gs) ==
    LET cleared == BoxIndices(pos, size, gs)
    IN  [n \in DOMAIN g |-> IF n \in cleared THEN NoneCell ELSE g[n]]

\* can_box that accepts any occupied cell, whatever its color.
can_box_any_color(g, value, pos, size, gs) ==
    /\ pos[1] + size[1] <= gs[1]
    /\ pos[2] + size[2] <= gs[2]
    /\ pos[3] + size[3] <= gs[3]
    /\ \A n \in BoxIndices(pos, size, gs) : g[n] # NoneCell

\* can_box (lines 342-367).
can_box(g, value, pos, size, gs) ==
    /\ pos[1] + size[1] <= gs[1]
    /\ pos[2] + size[2] <= gs[2]
    /\ pos[3] + size[3] <= gs[3]
    /\ \A n \in BoxIndices(pos, size, gs) : g[n] = value

\* The height loop without the test against 64.
RECURSIVE GrowH_no_cap(_, _, _, _, _)
GrowH_no_cap(g, val, pos, h, gs) ==
    IF can_box(g, val, pos, <<1, 1, h>>, gs)
    THEN GrowH_no_cap(g, val, pos, h + 1, gs)
    ELSE h - 1

\* The three while loops of lines 381-399, each followed by its decrement.
RECURSIVE GrowH(_, _, _, _, _)
GrowH(g, val, pos, h, gs) ==
    IF can_box(g, val, pos, <<1, 1, h>>, gs) /\ h <= MaxExtent
    THEN GrowH(g, val, pos, h + 1, gs)
    ELSE h - 1

RECURSIVE GrowW(_, _, _, _, _, _)
GrowW(g, val, pos, w, h, gs) ==
    IF can_box(g, val, pos, <<w, 1, h>>, gs) /\ w <= MaxExtent
    THEN GrowW(g, val, pos, w + 1, h, gs)
    ELSE w - 1

\* The length loop with the cap tested as l < 64.
RECURSIVE GrowL_strict_cap(_, _, _, _, _, _, _)
GrowL_strict_cap(g, val, pos, w, l, h, gs) ==
    IF can_box(g, val, pos, <<w, l, h>>, gs) /\ l < MaxExtent
    THEN GrowL_strict_cap(g, val, pos, w, l + 1, h, gs)
    ELSE l - 1

RECURSIVE GrowL(_, _, _, _, _, _, _)
GrowL(g, val, pos, w, l, h, gs) ==
    IF can_box(g, val, pos, <<w, l, h>>, gs) /\ l <= MaxExtent
    THEN GrowL(g, val, pos, w, l + 1, h, gs)
    ELSE l - 1

\* The box lines 377-401 settle on at an occupied cell; an extent of 0 means
\* that nothing is emitted.
GreedyBox(g, val, pos, gs) ==
    LET h == GrowH(g, val, pos, 1, gs)
        w == IF h > 0 THEN GrowW(g, val, pos, 1, h, gs) ELSE 0
        l == IF w > 0 THEN GrowL(g, val, pos, w, 1, h, gs) ELSE 0
    IN  <<w, l, h>>

\* Lines 404-418: the brick of a box, in grid-local coordinates.
MergedBrick(pos, ext, val, unit, asset) ==
    LET size == <<ext[1] * unit[1], ext[2] * unit[1], ext[3] * unit[2]>>
    IN  [ size |-> size,
          asset_name_index |-> asset,
          position |-> << pos[1] * unit[1] * 2 + size[1],
                          pos[2] * unit[1] * 2 + size[2],
                          pos[3] * unit[2] * 2 + size[3] >>,
          color |-> val,
          owner_index |-> 0 ]

\* The cell the t-th iteration of the loops of lines 371-373 visits: x is the
\* outer loop, z the inner one.
ScanCell(t, gs) ==
    <<t \div (gs[2] * gs[3]), (t \div gs[3]) % gs[2], t % gs[3]>>

\* The body of the loops (lines 374-423) at one cell, on the scan's state
\* [g: the grid, out: the bricks pushed, bx: the boxes emitted].
ScanStep(st, pos, gs, unit, asset) ==
    LET val == st.g[get_index(pos, gs)]
        ext == GreedyBox(st.g, val, pos, gs)
    IN  IF val = NoneCell \/ ext[1] = 0 \/ ext[2] = 0 \/ ext[3] = 0 THEN st
        ELSE [ g |-> box_remove(st.g, pos, ext, gs),
               out |-> Append(st.out, MergedBrick(pos, ext, val, unit, asset)),
               bx |-> Append(st.bx, [pos |-> pos, ext |-> ext, val |-> val]) ]

\* The translation by min_bounds taken as world units.
Rebase_unscaled(brick, lo, unit) ==
    [brick EXCEPT !.position = <<@[1] + lo[1], @[2] + lo[2], @[3] + lo[3]>>]

\* Lines 428-432: the translation back by min_bounds.
Rebase(brick, lo, unit) ==
    [brick EXCEPT !.position = << @[1] + lo[1] * unit[1] * 2,
                                  @[2] + lo[2] * unit[1] * 2,
                                  @[3] + lo[3] * unit[2] * 2 >>]

(***************************************************************************)
(* Ramp Hand-off (lib.rs 288-325). The ramp generator is the rampifier     *)
(* crate; of it the model keeps the contract: each call returns bricks for *)
(* cells it claims among the occupied ones, and remove_occupied_voxels     *)
(* empties the claimed cells.                                              *)
(***************************************************************************)
MaxRampCells == 1

OccupiedIndices(g) == {n \in DOMAIN g : g[n] # NoneCell}

\* The pairs <<cells the floor call claims, cells the ceiling call claims>>.
RampClaims(g) ==
    { fc \in (SUBSET OccupiedIndices(g)) \X (SUBSET OccupiedIndices(g)) :
        /\ fc[1] \cap fc[2] = {}
        /\ Cardinality(fc[1] \cup fc[2]) <= MaxRampCells }

RECURSIVE SetToSeq(_)
SetToSeq(S) ==
    IF S = {} THEN <<>>
    ELSE LET m == MinOf(S) IN <<m>> \o SetToSeq(S \ {m})

\* The cell of a flat index: the inverse of get_index.
IndexCell(n, gs) == <<n % gs[1], (n \div gs[1]) % gs[2], n \div (gs[1] * gs[2])>>

\* One ramp (or wedge) brick per claimed cell, in grid-local coordinates.
RampBricks(g, claimed, gs, asset) ==
    LET cells == SetToSeq(claimed)
    IN  [k \in 1..Len(cells) |->
            MergedBrick(IndexCell(cells[k], gs), <<1, 1, 1>>, g[cells[k]],
                        RampUnit, asset)]

\* Rampifier::remove_occupied_voxels (line 321).
remove_occupied_voxels(g, claimed) ==
    [n \in DOMAIN g |-> IF n \in claimed THEN NoneCell ELSE g[n]]

(***************************************************************************)
(* vox2brs (lib.rs 45-441), one action per stage.                          *)
(***************************************************************************)
NoBounds == <<0, 0, 0>>

\* Lines 63-76.
LoadColors ==
    /\ pc = "start"
    /\ colors' = PushColors(colors, in_vox_data.palette)
    /\ pc' = "place"
    /\ UNCHANGED <<callvars, rotvars, argvars, save_bricks, inst, gridvars>>

\* One iteration of the loop of lines 175-178.
PlaceModel ==
    /\ pc = "place"
    /\ inst <= Len(in_vox_data.models)
    /\ LET model == in_vox_data.models[inst]
           r == model_to_bricks(model, unwrap_or(model.position, <<0, 0, 0>>),
                                model.rotation, brick_size, brick_asset)
       IN  IF r.ok
           THEN /\ save_bricks' = save_bricks \o r.pushed
                /\ inst' = inst + 1
                /\ pc' = pc
           ELSE /\ pc' = "panic_index"
                /\ UNCHANGED <<save_bricks, inst>>
    /\ UNCHANGED <<callvars, rotvars, argvars, colors, gridvars>>

\* One iteration of the loop of lines 180-185.
PlaceCopy ==
    /\ pc = "place"
    /\ inst > Len(in_vox_data.models)
    /\ inst <= NumInstances
    /\ LET model_copy == in_vox_data.copies[inst - Len(in_vox_data.models)]
           m == get_model_by_id(in_vox_data.models, model_copy.model_id)
           r == IF m = 0 THEN [ok |-> TRUE, pushed |-> <<>>]
                ELSE model_to_bricks(in_vox_data.models[m],
                                     unwrap_or(model_copy.position, <<0, 0, 0>>),
                                     model_copy.rotation, brick_size, brick_asset)
       IN  IF r.ok
           THEN /\ save_bricks' = save_bricks \o r.pushed
                /\ inst' = inst + 1
                /\ pc' = pc
           ELSE /\ pc' = "panic_index"
                /\ UNCHANGED <<save_bricks, inst>>
    /\ UNCHANGED <<callvars, rotvars, argvars, colors, gridvars>>

\* Line 190 false: straight to Ok(brs_save) (line 440).
Return ==
    /\ pc = "place"
    /\ inst > NumInstances
    /\ ~Simplifying
    /\ pc' = "done"
    /\ UNCHANGED <<callvars, rotvars, argvars, colors, save_bricks, inst, gridvars>>

GridSizeOverflows(lo, hi) == \E a \in 1..3 : SubOverflows(hi[a], lo[a])

\* Lines 190-253: the bricks are moved out of the save and bounded. The
\* subtractions of lines 250-252 wrap in a build without overflow checks.
FindBounds ==
    /\ pc = "place"
    /\ inst > NumInstances
    /\ Simplifying
    /\ bricks' = save_bricks
    /\ save_bricks' = <<>>
    /\ min_bounds' = MinBounds(save_bricks, SimplifyUnit)
    /\ max_bounds' = MaxBounds(save_bricks, SimplifyUnit)
    /\ grid_size' = [a \in 1..3 |-> SubWrapped(max_bounds'[a], min_bounds'[a])]
    /\ pc' = "fill"
    /\ UNCHANGED <<callvars, rotvars, argvars, colors, inst, grid, occupied, scan_t,
                   merge_input, boxes>>

\* Lines 190-253 in a build with overflow checks (the debug profile), when a
\* subtraction of lines 250-252 overflows: "attempt to subtract with overflow".
FindBoundsOverflow ==
    /\ pc = "place"
    /\ inst > NumInstances
    /\ Simplifying
    /\ GridSizeOverflows(MinBounds(save_bricks, SimplifyUnit),
                         MaxBounds(save_bricks, SimplifyUnit))
    /\ bricks' = save_bricks
    /\ save_bricks' = <<>>
    /\ min_bounds' = MinBounds(save_bricks, SimplifyUnit)
    /\ max_bounds' = MaxBounds(save_bricks, SimplifyUnit)
    /\ pc' = "panic_overflow"
    /\ UNCHANGED <<callvars, rotvars, argvars, colors, inst, grid_size, grid, occupied,
                   scan_t, merge_input, boxes>>

\* Lines 259-286.
BuildGrid ==
    /\ pc = "fill"
    /\ grid' = FillGrid(bricks, SimplifyUnit, min_bounds, grid_size)
    /\ pc' = IF rampify THEN "ramps" ELSE "scan"
    /\ merge_input' = IF rampify THEN merge_input ELSE grid'
    /\ UNCHANGED <<callvars, rotvars, argvars, colors, save_bricks, inst, bricks,
                   min_bounds, max_bounds, grid_size, occupied, scan_t, boxes>>

\* Lines 288-318: both generate_ramps calls, their bricks appended.
GenerateRamps ==
    /\ pc = "ramps"
    /\ \E fc \in RampClaims(grid) :
          /\ save_bricks' = save_bricks
                 \o RampBricks(grid, fc[1], grid_size, ramp_asset_index)
                 \o RampBricks(grid, fc[2], grid_size, wedge_asset_index)
          /\ occupied' = fc[1] \cup fc[2]
    /\ pc' = "remove"
    /\ UNCHANGED <<callvars, rotvars, argvars, colors, inst, bricks, min_bounds,
                   max_bounds, grid_size, grid, scan_t, merge_input, boxes>>

\* The grid moved back out without the claimed cells emptied.
RemoveOccupied_skip ==
    /\ pc = "remove"
    /\ grid' = grid
    /\ merge_input' = grid'
    /\ pc' = "scan"
    /\ UNCHANGED <<callvars, rotvars, argvars, colors, save_bricks, inst, bricks,
                   min_bounds, max_bounds, grid_size, occupied, scan_t, boxes>>

\* Lines 320-324.
RemoveOccupied ==
    /\ pc = "remove"
    /\ grid' = remove_occupied_voxels(grid, occupied)
    /\ merge_input' = grid'
    /\ pc' = "scan"
    /\ UNCHANGED <<callvars, rotvars, argvars, colors, save_bricks, inst, bricks,
                   min_bounds, max_bounds, grid_size, occupied, scan_t, boxes>>

\* One iteration of the loops of lines 371-426.
ScanVisit ==
    /\ pc = "scan"
    /\ scan_t < GridLen(grid_size)
    /\ LET st == ScanStep([g |-> grid, out |-> save_bricks, bx |-> boxes],
                          ScanCell(scan_t, grid_size), grid_size, SimplifyUnit,
                          brick_asset)
       IN  /\ grid' = st.g
           /\ save_bricks' = st.out
           /\ boxes' = st.bx
    /\ scan_t' = scan_t + 1
    /\ UNCHANGED <<callvars, rotvars, argvars, colors, inst, bricks, min_bounds,
                   max_bounds, grid_size, occupied, merge_input, pc>>

\* Lines 428-440, once the loops are over.
RebaseBricks ==
    /\ pc = "scan"
    /\ scan_t >= GridLen(grid_size)
    /\ save_bricks' = [k \in 1..Len(save_bricks) |->
                          Rebase(save_bricks[k], min_bounds, SimplifyUnit)]
    /\ pc' = "done"
    /\ UNCHANGED <<callvars, rotvars, argvars, colors, inst, gridvars>>

(***************************************************************************)
(* Inputs.                                                                 *)
(***************************************************************************)
MaxVoxels == 3
MaxPlaceVoxels == 2
MaxBlock == 3
MaxPalette == 3

Modes == {"Brick", "Plate", "MicroBrick"}
ColorIndices == 1..2

CellsOf(size) == (0..(size[1] - 1)) \X (0..(size[2] - 1)) \X (0..(size[3] - 1))
CellRank(c, size) == c[1] + c[2] * size[1] + c[3] * size[1] * size[2]

\* The cells of S in ascending rank.
RECURSIVE CellSeq(_, _)
CellSeq(S, size) ==
    IF S = {} THEN <<>>
    ELSE LET m == CHOOSE c \in S : \A o \in S : CellRank(c, size) <= CellRank(o, size)
         IN  <<m>> \o CellSeq(S \ {m}, size)

\* The voxel lists of a model of this size with at most n voxels, no cell
\* twice, in ascending cell order.
VoxelLists(size, n, cols) ==
    UNION { { [k \in 1..Cardinality(S) |->
                 [position |-> CellSeq(S, size)[k], color_index |-> f[CellSeq(S, size)[k]]]]
              : f \in [S -> cols] }
            : S \in {T \in SUBSET CellsOf(size) : Cardinality(T) <= n} }

MakeModel(id, size, voxels, position, rotation) ==
    [id |-> id, size |-> size, voxels |-> voxels, position |-> position,
     rotation |-> rotation]

MakeCopy(model_id, position, rotation) ==
    [model_id |-> model_id, position |-> position, rotation |-> rotation]

SampleColors ==
    { [r |-> 0, g |-> 64, b |-> 128, a |-> 255],
      [r |-> 255, g |-> 200, b |-> 0, a |-> 0],
      [r |-> 128, g |-> 128, b |-> 128, a |-> 77] }

DefaultPalette ==
    << [r |-> 0, g |-> 64, b |-> 128, a |-> 255],
       [r |-> 255, g |-> 200, b |-> 0, a |-> 0] >>

MakeVox(palette, models, copies) ==
    [palette |-> palette, models |-> models, copies |-> copies]

\* The rotation byte with these axis fields and sign bits.
RotationCode(a1, a2, s1, s2, s3) == a1 + 4 * a2 + 16 * s1 + 32 * s2 + 64 * s3

\* A quarter turn about Z: X from -axis 1, Y from axis 0.
QuarterTurn == RotationCode(1, 0, 1, 0, 0)
\* A code whose first axis field is 3.
BadAxisCode == RotationCode(3, 0, 0, 0, 0)

\* Scenes of the simplification: one small model, alone, at a negative
\* position, with an adjacent copy, or with an overlapping turned copy.
MergeSize == <<2, 2, 2>>
MergeScenes ==
    UNION { { MakeVox(DefaultPalette,
                      <<MakeModel(0, MergeSize, vs, NonePos, NoneByte)>>, <<>>),
              MakeVox(DefaultPalette,
                      <<MakeModel(0, MergeSize, vs, Some(<<-1, 2, 0>>), NoneByte)>>,
                      <<>>),
              MakeVox(DefaultPalette,
                      <<MakeModel(0, MergeSize, vs, NonePos, NoneByte)>>,
                      <<MakeCopy(0, Some(<<2, 0, 0>>), NoneByte)>>),
              MakeVox(DefaultPalette,
                      <<MakeModel(0, MergeSize, vs, NonePos, NoneByte)>>,
                      <<MakeCopy(0, Some(<<1, 0, 0>>), Some(QuarterTurn))>>) }
            : vs \in VoxelLists(MergeSize, MaxVoxels, ColorIndices) }

\* Solid one-colored blocks: every a x b x c up to MaxBlock, and runs of
\* MaxExtent and MaxExtent + 1 cells along each axis.
BlockDims ==
    ((1..MaxBlock) \X (1..MaxBlock) \X (1..MaxBlock))
    \cup { <<n, 1, 1>> : n \in {MaxExtent, MaxExtent + 1} }
    \cup { <<1, n, 1>> : n \in {MaxExtent, MaxExtent + 1} }
    \cup { <<1, 1, n>> : n \in {MaxExtent, MaxExtent + 1} }

SolidVoxels(size) ==
    LET cells == CellSeq(CellsOf(size), size)
    IN  [k \in 1..Len(cells) |-> [position |-> cells[k], color_index |-> 1]]

BlockScene(size) ==
    MakeVox(DefaultPalette,
            <<MakeModel(0, size, SolidVoxels(size), NonePos, NoneByte)>>, <<>>)

BlockScenes == { BlockScene(size) : size \in BlockDims }

EmptyScene == MakeVox(DefaultPalette, <<>>, <<>>)

\* Scenes handed to the ramp generator.
RampSize == <<2, 1, 2>>
RampScenes ==
    { MakeVox(DefaultPalette, <<MakeModel(0, RampSize, vs, NonePos, NoneByte)>>, <<>>)
        : vs \in VoxelLists(RampSize, MaxVoxels, ColorIndices) }

Args(m, w, h, s, r) ==
    [mode |-> m, width |-> w, height |-> h, simplify |-> s, rampify |-> r]

SimplifyArgs ==
    { Args("Brick", NoneByte, NoneByte, TRUE, FALSE),
      Args("Plate", Some(2), Some(1), TRUE, FALSE),
      Args("MicroBrick", Some(1), Some(2), TRUE, FALSE),
      Args("Brick", NoneByte, NoneByte, FALSE, FALSE) }

RampArgs ==
    { Args("Plate", NoneByte, NoneByte, FALSE, TRUE),
      Args("MicroBrick", NoneByte, NoneByte, FALSE, TRUE) }

\* With rampify a Brick of height 1 is three cells tall.
TallRampArgs == { Args("Brick", NoneByte, Some(1), TRUE, TRUE) }
TallRampScenes ==
    { MakeVox(DefaultPalette, <<MakeModel(0, RampSize, vs, NonePos, NoneByte)>>, <<>>)
        : vs \in VoxelLists(RampSize, 1, ColorIndices) }

DefaultApp ==
    [mode |-> "Brick", width |-> 1, height |-> 1, simplify |-> FALSE,
     rampify |-> FALSE]

NoCall ==
    [caller |-> "none", mode |-> "Brick", width |-> NoneByte, height |-> NoneByte,
     simplify |-> FALSE, rampify |-> FALSE]

CallerIdle ==
    /\ program = "lib"
    /\ app = DefaultApp
    /\ call = NoCall

RotIdle ==
    /\ CallerIdle
    /\ rot_pos = <<0, 0, 0>>
    /\ rot_byte = 0
    /\ rot_out = NoResult

\* The state vox2brs starts in: callers pass a save with no colors and no
\* bricks (cli main.rs 69-89, gui app.rs 165-184).
Start(vox, args) ==
    /\ pc = "start"
    /\ in_vox_data = vox
    /\ mode = args.mode
    /\ width = args.width
    /\ height = args.height
    /\ simplify = args.simplify
    /\ rampify = args.rampify
    /\ colors = <<>>
    /\ save_bricks = <<>>
    /\ inst = 1
    /\ bricks = <<>>
    /\ min_bounds = NoBounds
    /\ max_bounds = NoBounds
    /\ grid_size = NoBounds
    /\ grid = <<>>
    /\ occupied = {}
    /\ scan_t = 0
    /\ merge_input = <<>>
    /\ boxes = <<>>

Init ==
    /\ RotIdle
    /\ \/ \E vox \in MergeScenes \cup BlockScenes \cup {EmptyScene},
             args \in SimplifyArgs : Start(vox, args)
       \/ \E vox \in RampScenes \cup {EmptyScene}, args \in RampArgs :
             Start(vox, args)
       \/ \E vox \in TallRampScenes, args \in TallRampArgs : Start(vox, args)

Next ==
    \/ LoadColors
    \/ PlaceModel
    \/ PlaceCopy
    \/ Return
    \/ FindBounds
    \/ FindBoundsOverflow
    \/ BuildGrid
    \/ GenerateRamps
    \/ RemoveOccupied
    \/ ScanVisit
    \/ RebaseBricks

Spec == Init /\ [][Next]_vars

(***************************************************************************)
(* The Placement Emitter on richer instance lists, without simplification  *)
(* (SpecPlace).                                                            *)
(***************************************************************************)
PlaceSizes == {<<1, 1, 1>>, <<2, 3, 1>>}

PlacePlacements ==
    { <<NonePos, NoneByte>>,
      <<Some(<<1, -2, 3>>), NoneByte>>,
      <<Some(<<1, -2, 3>>), Some(QuarterTurn)>> }

FirstModels ==
    UNION { { MakeModel(0, size, vs, pl[1], pl[2]) :
                vs \in VoxelLists(size, MaxPlaceVoxels, ColorIndices),
                pl \in PlacePlacements }
            : size \in PlaceSizes }

SecondModel ==
    MakeModel(1, <<1, 1, 1>>, <<[position |-> <<0, 0, 0>>, color_index |-> 2]>>,
              Some(<<0, 0, 1>>), NoneByte)

PlaceModelLists ==
    {<<>>} \cup { <<m>> : m \in FirstModels } \cup { <<m, SecondModel>> : m \in FirstModels }

\* Copy lists: none, a copy of model 0, a copy of a model that does not
\* exist, a turned copy followed by a copy of model 1, a malformed rotation.
PlaceCopyLists ==
    { <<>>,
      <<MakeCopy(0, NonePos, NoneByte)>>,
      <<MakeCopy(7, Some(<<0, 1, 0>>), NoneByte)>>,
      <<MakeCopy(0, Some(<<-2, 0, 1>>), Some(QuarterTurn)), MakeCopy(1, NonePos, NoneByte)>>,
      <<MakeCopy(0, NonePos, Some(BadAxisCode))>> }

DimChoices == { <<NoneByte, NoneByte>>, <<Some(1), Some(1)>>, <<Some(2), Some(3)>> }

PlaceArgs == { Args(m, d[1], d[2], FALSE, FALSE) : m \in Modes, d \in DimChoices }

InitPlace ==
    /\ RotIdle
    /\ \E ms \in PlaceModelLists, cs \in PlaceCopyLists, args \in PlaceArgs :
          Start(MakeVox(DefaultPalette, ms, cs), args)

NextPlace ==
    \/ LoadColors
    \/ PlaceModel
    \/ PlaceCopy
    \/ Return

SpecPlace == InitPlace /\ [][NextPlace]_vars

(***************************************************************************)
(* The Color Corrector on every short palette (SpecColors).                *)
(***************************************************************************)
RECURSIVE SeqsUpTo(_, _)
SeqsUpTo(S, n) ==
    IF n = 0 THEN {<<>>}
    ELSE LET shorter == SeqsUpTo(S, n - 1)
         IN  shorter \cup { Append(q, e) : q \in shorter, e \in S }

Palettes == SeqsUpTo(SampleColors, MaxPalette)

\* One 1x1x1 model whose voxel has this color index.
OneVoxelModels(c) ==
    <<MakeModel(0, <<1, 1, 1>>, <<[position |-> <<0, 0, 0>>, color_index |-> c]>>,
                NonePos, NoneByte)>>

InitColors ==
    /\ RotIdle
    /\ \E pal \in Palettes, m \in Modes :
          \/ /\ pal = <<>>
             /\ Start(MakeVox(pal, <<>>, <<>>),
                      Args(m, NoneByte, NoneByte, FALSE, FALSE))
          \/ \E c \in 1..Len(pal) :
                Start(MakeVox(pal, OneVoxelModels(c), <<>>),
                      Args(m, NoneByte, NoneByte, FALSE, FALSE))

NextColors ==
    \/ LoadColors
    \/ PlaceModel
    \/ Return

SpecColors == InitColors /\ [][NextColors]_vars

(***************************************************************************)
(* The Rotation Mapper on its own: every byte, positions in a small cube   *)
(* (SpecRot).                                                              *)
(***************************************************************************)
Coords == (-MaxCoord)..MaxCoord
RotPositions == Coords \X Coords \X Coords
Bytes == 0..255

InitRot ==
    /\ rot_pos \in RotPositions
    /\ rot_byte \in Bytes
    /\ rot_out = NoResult
    /\ CallerIdle
    /\ pc = "idle"
    /\ in_vox_data = EmptyScene
    /\ mode = "Brick"
    /\ width = NoneByte
    /\ height = NoneByte
    /\ simplify = FALSE
    /\ rampify = FALSE
    /\ colors = <<>>
    /\ save_bricks = <<>>
    /\ inst = 1
    /\ bricks = <<>>
    /\ min_bounds = NoBounds
    /\ max_bounds = NoBounds
    /\ grid_size = NoBounds
    /\ grid = <<>>
    /\ occupied = {}
    /\ scan_t = 0
    /\ merge_input = <<>>
    /\ boxes = <<>>

\* One call of row_major_rotation.
RotApply ==
    /\ pc = "idle"
    /\ rot_out = NoResult
    /\ rot_out' = row_major_rotation(rot_pos, rot_byte)
    /\ UNCHANGED <<callvars, rot_pos, rot_byte, pc, argvars, colors,
                   save_bricks, inst, gridvars>>

NextRot == RotApply

SpecRot == InitRot /\ [][NextRot]_vars

(***************************************************************************)
(* The callers of vox2brs (SpecCaller): the CLI's main (cli main.rs 60-93) *)
(* and the GUI's update (gui app.rs 51-239).                               *)
(***************************************************************************)
MaxSizeArg == 2

SizeOptions == {NoneByte} \cup {Some(n) : n \in 1..MaxSizeArg}

InitCaller ==
    /\ program \in {"cli", "gui"}
    /\ app = DefaultApp
    /\ call = NoCall
    /\ rot_pos = <<0, 0, 0>>
    /\ rot_byte = 0
    /\ rot_out = NoResult
    /\ pc = "idle"
    /\ in_vox_data = EmptyScene
    /\ mode = "Brick"
    /\ width = NoneByte
    /\ height = NoneByte
    /\ simplify = FALSE
    /\ rampify = FALSE
    /\ colors = <<>>
    /\ save_bricks = <<>>
    /\ inst = 1
    /\ bricks = <<>>
    /\ min_bounds = NoBounds
    /\ max_bounds = NoBounds
    /\ grid_size = NoBounds
    /\ grid = <<>>
    /\ occupied = {}
    /\ scan_t = 0
    /\ merge_input = <<>>
    /\ boxes = <<>>

libvars == <<rotvars, pc, argvars, colors, save_bricks, inst, gridvars>>

\* cli main (lines 60-93): the parsed arguments go to vox2brs as they are.
CliMain ==
    /\ program = "cli"
    /\ call = NoCall
    /\ \E m \in Modes, w \in SizeOptions, h \in SizeOptions, s \in BOOLEAN,
          r \in BOOLEAN :
          call' = [caller |-> "cli", mode |-> m, width |-> w, height |-> h,
                   simplify |-> s, rampify |-> r]
    /\ UNCHANGED <<program, app, libvars>>

\* The head of update (app.rs 54-58), run at the start of every frame.
Coerced(a) ==
    [a EXCEPT !.mode = IF a.mode = "MicroBrick" /\ a.rampify THEN "Brick" ELSE @,
              !.simplify = a.simplify \/ a.rampify]

\* A frame of the GUI handles at most one interaction: the widgets of a
\* frame share one pointer position.

\* A frame in which the Rampify checkbox (line 123) is clicked.
GuiToggleRampify ==
    /\ program = "gui"
    /\ app' = [Coerced(app) EXCEPT !.rampify = ~@]
    /\ UNCHANGED <<program, call, libvars>>

\* A frame in which the Simplify checkbox (line 127) is clicked; it is
\* enabled only while rampify is off.
GuiToggleSimplify ==
    /\ program = "gui"
    /\ ~Coerced(app).rampify
    /\ app' = [Coerced(app) EXCEPT !.simplify = ~@]
    /\ UNCHANGED <<program, call, libvars>>

\* A frame in which a Brick Type is picked (lines 131-146); MicroBrick is
\* selectable only while rampify is off.
GuiSelectMode ==
    /\ program = "gui"
    /\ \E m \in Modes :
          /\ m = "MicroBrick" => ~Coerced(app).rampify
          /\ app' = [Coerced(app) EXCEPT !.mode = m]
    /\ UNCHANGED <<program, call, libvars>>

\* A frame in which Width or Height is dragged (lines 150-157).
GuiDragSize ==
    /\ program = "gui"
    /\ \E w \in 1..MaxSizeArg, h \in 1..MaxSizeArg :
          app' = [Coerced(app) EXCEPT !.width = w, !.height = h]
    /\ UNCHANGED <<program, call, libvars>>

\* A frame in which "Convert VOX to BRS" is clicked (lines 162-204).
GuiConvert ==
    /\ program = "gui"
    /\ app' = Coerced(app)
    /\ call' = [caller |-> "gui", mode |-> app'.mode, width |-> Some(app'.width),
                height |-> Some(app'.height), simplify |-> app'.simplify,
                rampify |-> app'.rampify]
    /\ UNCHANGED <<program, libvars>>

NextCaller ==
    \/ CliMain
    \/ GuiToggleRampify
    \/ GuiToggleSimplify
    \/ GuiSelectMode
    \/ GuiDragSize
    \/ GuiConvert

SpecCaller == InitCaller /\ [][NextCaller]_vars

\* Line 190 of lib.rs on the arguments of a call.
CallSimplifies(c) == c.simplify \/ c.rampify

\* C9: in every call of vox2brs by the CLI or the GUI, rampify implies that
\* the mode is not MicroBrick and that the simplification pass runs.
C9_RampifyPolicy ==
    (call.caller # "none" /\ call.rampify) =>
        /\ call.mode # "MicroBrick"
        /\ CallSimplifies(call)

(***************************************************************************)
(* Properties of the Rotation Mapper (SpecRot).                            *)
(***************************************************************************)
RotCalled == rot_out # NoResult

\* C1 as stated: rotation code 0 is the identity transform.
C1_RotZeroIdentity ==
    (RotCalled /\ rot_byte = 0) => rot_out = Ok(rot_pos)

\* C1 amended: rotation code 4 (X from axis 0, Y from axis 1, no sign bit) is
\* the identity transform, while code 0 maps (x,y,z) to (x, x, y+z).
C1_RotFourIdentity ==
    /\ (RotCalled /\ rot_byte = 4) => rot_out = Ok(rot_pos)
    /\ (RotCalled /\ rot_byte = 0) =>
           rot_out = Ok(<<rot_pos[1], rot_pos[1], rot_pos[2] + rot_pos[3]>>)

C1_Witness ==
    RotCalled /\ rot_byte = 4 /\ rot_pos = <<1, -1, 2>> /\ rot_out.ok

\* C8: the Rotation Mapper returns a position for every 8-bit code and
\* every position.
C8_RotNeverFails == RotCalled => rot_out.ok

(***************************************************************************)
(* Properties of the Placement Emitter (SpecPlace).                        *)
(***************************************************************************)
Returned == pc = "done"

\* The models an instance refers to: the model itself, or the models whose
\* id is the copy's model_id.
InstanceModels(k) ==
    IF k <= Len(in_vox_data.models) THEN {k}
    ELSE { m \in 1..Len(in_vox_data.models) :
             in_vox_data.models[m].id =
                 in_vox_data.copies[k - Len(in_vox_data.models)].model_id }

InstanceVoxels(k) ==
    IF InstanceModels(k) = {} THEN <<>>
    ELSE in_vox_data.models[CHOOSE m \in InstanceModels(k) : TRUE].voxels

InstanceSize(k) == in_vox_data.models[CHOOSE m \in InstanceModels(k) : TRUE].size

InstancePosition(k) ==
    IF k <= Len(in_vox_data.models)
    THEN unwrap_or(in_vox_data.models[k].position, <<0, 0, 0>>)
    ELSE unwrap_or(in_vox_data.copies[k - Len(in_vox_data.models)].position, <<0, 0, 0>>)

InstanceRotation(k) ==
    IF k <= Len(in_vox_data.models)
    THEN in_vox_data.models[k].rotation
    ELSE in_vox_data.copies[k - Len(in_vox_data.models)].rotation

\* The number of voxels of instances 1..k.
RECURSIVE VoxelsUpTo(_)
VoxelsUpTo(k) == IF k = 0 THEN 0 ELSE VoxelsUpTo(k - 1) + Len(InstanceVoxels(k))

\* C2: without simplify and rampify, the save returned has one brick per
\* voxel of every instance (each model once, then each copy record), in
\* instance order then voxel order.
C2_VoxelCountPreserved ==
    (Returned /\ ~Simplifying) =>
        /\ Len(save_bricks) = VoxelsUpTo(NumInstances)
        /\ \A k \in 1..NumInstances : \A j \in 1..Len(InstanceVoxels(k)) :
              save_bricks[VoxelsUpTo(k - 1) + j].color + 1
                  = InstanceVoxels(k)[j].color_index

\* Two models, a turned copy and a copy of the second model, all placed.
C2_Witness ==
    /\ Returned
    /\ ~Simplifying
    /\ Len(in_vox_data.models) = 2
    /\ Len(in_vox_data.copies) = 2
    /\ Len(in_vox_data.models[1].voxels) = 2
    /\ Len(save_bricks) = 6

\* The half-extents the claim gives for a mode, a width and a height.
ClaimedHalfWidth == IF mode = "MicroBrick" THEN width.val ELSE width.val * 5
ClaimedHalfHeight ==
    CASE mode = "Brick" -> height.val * 6
      [] mode = "Plate" -> height.val * 2
      [] mode = "MicroBrick" -> height.val

\* C3: without simplify, the brick of a voxel at v in a model of size s
\* placed at p without rotation has half-extents (W,W,H) by mode, position
\* (X*2W+W, -Y*2W+W, Z*2H+H) with (X,Y,Z) = v - (s div 2) + p, and the
\* voxel's color index minus 1; one voxel of color 1 at the origin of a
\* 1x1x1 model at the origin, as a Brick of width 1 and height 1, gives one
\* brick of half-extents (5,5,6) at (5,5,6) with color 0.
C3_PlacementFormula ==
    (Returned /\ ~Simplifying /\ width.some /\ height.some) =>
        /\ \A k \in 1..NumInstances : \A j \in 1..Len(InstanceVoxels(k)) :
              ~InstanceRotation(k).some =>
                  LET b == save_bricks[VoxelsUpTo(k - 1) + j]
                      v == InstanceVoxels(k)[j].position
                      s == InstanceSize(k)
                      p == InstancePosition(k)
                      W == ClaimedHalfWidth
                      H == ClaimedHalfHeight
                      X == v[1] - (s[1] \div 2) + p[1]
                      Y == v[2] - (s[2] \div 2) + p[2]
                      Z == v[3] - (s[3] \div 2) + p[3]
                  IN  /\ b.size = <<W, W, H>>
                      /\ b.position = <<X * 2 * W + W, (-Y) * 2 * W + W, Z * 2 * H + H>>
                      /\ b.color = InstanceVoxels(k)[j].color_index - 1
        /\ (/\ mode = "Brick" /\ width.val = 1 /\ height.val = 1
            /\ in_vox_data.copies = <<>>
            /\ in_vox_data.models =
                   <<MakeModel(0, <<1, 1, 1>>,
                               <<[position |-> <<0, 0, 0>>, color_index |-> 1]>>,
                               NonePos, NoneByte)>>)
           => /\ Len(save_bricks) = 1
              /\ save_bricks[1].size = <<5, 5, 6>>
              /\ save_bricks[1].position = <<5, 5, 6>>
              /\ save_bricks[1].color = 0

\* A voxel off the origin, in a model of even and odd sizes, at a position
\* with a negative and a positive Y-relevant offset, as a Plate 2 wide.
C3_Witness ==
    /\ Returned
    /\ ~Simplifying
    /\ mode = "Plate" /\ width = Some(2) /\ height = Some(3)
    /\ Len(in_vox_data.models) >= 1
    /\ in_vox_data.models[1].size = <<2, 3, 1>>
    /\ in_vox_data.models[1].position = Some(<<1, -2, 3>>)
    /\ ~in_vox_data.models[1].rotation.some
    /\ Len(in_vox_data.models[1].voxels) = 2
    /\ in_vox_data.models[1].voxels[2].position = <<1, 2, 0>>
    /\ save_bricks[2].position = <<30, 30, 42>>

(***************************************************************************)
(* Properties of the Color Corrector (SpecColors).                         *)
(***************************************************************************)
ColorsLoaded == pc \in {"place", "done"}

\* C10: the color table has one entry per palette entry, in palette order,
\* each the corrected input color with alpha 255, and a brick's zero-based
\* color index addresses the entry of the palette color its voxel referenced.
C10_PalettePositional ==
    /\ ColorsLoaded =>
          /\ Len(colors) = Len(in_vox_data.palette)
          /\ \A k \in 1..Len(colors) :
                /\ colors[k].r = GammaChannel(in_vox_data.palette[k].r)
                /\ colors[k].g = GammaChannel(in_vox_data.palette[k].g)
                /\ colors[k].b = GammaChannel(in_vox_data.palette[k].b)
                /\ colors[k].a = 255
    /\ (Returned /\ Len(save_bricks) = 1) =>
          LET voxel == in_vox_data.models[1].voxels[1]
              entry == colors[save_bricks[1].color + 1]
              source == in_vox_data.palette[voxel.color_index]
          IN  /\ entry.r = GammaChannel(source.r)
              /\ entry.g = GammaChannel(source.g)
              /\ entry.b = GammaChannel(source.b)

\* Three different colors, none with alpha 255 but the first, and a voxel
\* that refers to the last.
C10_Witness ==
    /\ Returned
    /\ Len(in_vox_data.palette) = 3
    /\ in_vox_data.palette[1] # in_vox_data.palette[2]
    /\ in_vox_data.palette[2] # in_vox_data.palette[3]
    /\ in_vox_data.palette[3].a = 77
    /\ Len(save_bricks) = 1
    /\ save_bricks[1].color = 2
    /\ colors[3] = [r |-> 55, g |-> 55, b |-> 55, a |-> 255]

(***************************************************************************)
(* Properties of the simplification (Spec).                                *)
(***************************************************************************)
\* The loops of lines 371-426 have run to their end.
ScanFinished ==
    /\ Simplifying
    /\ pc \in {"scan", "done"}
    /\ scan_t >= GridLen(grid_size)

RECURSIVE SumVolume(_, _)
SumVolume(bx, k) ==
    IF k > Len(bx) THEN 0
    ELSE bx[k].ext[1] * bx[k].ext[2] * bx[k].ext[3] + SumVolume(bx, k + 1)

BoxCells(b) == BoxIndices(b.pos, b.ext, grid_size)

\* The grid as the Grid Builder left it, before any ramp claimed a cell.
BuiltGrid == FillGrid(bricks, SimplifyUnit, min_bounds, grid_size)

\* C4: when the scan finishes, the volumes of the emitted boxes add up to
\* the number of cells that were occupied when the scan started, which is
\* the number the Grid Builder filled minus those cleared for the ramps.
C4_VolumePreserved ==
    ScanFinished =>
        /\ SumVolume(boxes, 1) = Cardinality(OccupiedIndices(merge_input))
        /\ OccupiedIndices(merge_input) = OccupiedIndices(BuiltGrid) \ occupied

C4_Witness ==
    /\ ScanFinished
    /\ rampify
    /\ occupied # {}
    /\ Len(boxes) >= 1
    /\ \E k \in 1..Len(boxes) : boxes[k].ext[3] = 2

\* C5: when the scan finishes, no two emitted boxes share a cell, every
\* cell of a box of color v held v in the grid the scan started from, every
\* cell holding v in that grid lies in exactly one box, of color v, and the
\* grid is empty.
C5_ExactPartition ==
    ScanFinished =>
        /\ \A i, j \in 1..Len(boxes) :
              i # j => BoxCells(boxes[i]) \cap BoxCells(boxes[j]) = {}
        /\ \A k \in 1..Len(boxes) :
              \A n \in BoxCells(boxes[k]) : merge_input[n] = boxes[k].val
        /\ \A n \in OccupiedIndices(merge_input) :
              /\ Cardinality({k \in 1..Len(boxes) : n \in BoxCells(boxes[k])}) = 1
              /\ \E k \in 1..Len(boxes) :
                    n \in BoxCells(boxes[k]) /\ boxes[k].val = merge_input[n]
        /\ OccupiedIndices(grid) = {}

\* Two colors side by side and more than one box.
C5_Witness ==
    /\ ScanFinished
    /\ Len(boxes) >= 3
    /\ \E i, j \in 1..Len(boxes) : boxes[i].val # boxes[j].val
    /\ \E k \in 1..Len(boxes) : boxes[k].ext[1] * boxes[k].ext[2] * boxes[k].ext[3] >= 2

\* The occupied cells of a grid, as cells.
OccupiedCells(g, gs) == {IndexCell(n, gs) : n \in OccupiedIndices(g)}

\* The extent of the bounding box of a non-empty set of cells.
SpanOf(cells) ==
    [a \in 1..3 |-> MaxOf({c[a] : c \in cells}) - MinOf({c[a] : c \in cells}) + 1]

\* The occupied cells form one solid axis-aligned block of one color.
SolidBlock(g, gs) ==
    LET cells == OccupiedCells(g, gs)
    IN  /\ cells # {}
        /\ Cardinality(cells) = SpanOf(cells)[1] * SpanOf(cells)[2] * SpanOf(cells)[3]
        /\ \A n, o \in OccupiedIndices(g) : g[n] = g[o]

\* C6: without rampify, a solid one-colored a x b x c block with a, b, c at
\* most 64 comes out as exactly one brick, with half-extents
\* (a * unit width, b * unit width, c * unit height).
C6_SolidBlockOneBrick ==
    (/\ pc = "done"
     /\ simplify
     /\ ~rampify
     /\ SolidBlock(merge_input, grid_size)
     /\ \A a \in 1..3 : SpanOf(OccupiedCells(merge_input, grid_size))[a] <= 64)
    => /\ Len(save_bricks) = 1
       /\ LET span == SpanOf(OccupiedCells(merge_input, grid_size))
          IN  save_bricks[1].size =
                  <<span[1] * brick_size[1], span[2] * brick_size[1],
                    span[3] * brick_size[2]>>

\* Two adjacent unit voxels of one color, merged along X.
C6_Witness ==
    /\ pc = "done"
    /\ simplify
    /\ ~rampify
    /\ SolidBlock(merge_input, grid_size)
    /\ SpanOf(OccupiedCells(merge_input, grid_size)) = <<2, 1, 1>>
    /\ Len(save_bricks) = 1
    /\ save_bricks[1].size = <<2 * brick_size[1], brick_size[1], brick_size[2]>>

\* C7: when the placement emitted no brick and simplify or rampify is set,
\* vox2brs does not fail, the bounding-box subtraction does not overflow,
\* and the save returned has no bricks.
C7_EmptyInputTotal ==
    (Simplifying /\ pc \notin {"start", "place", "panic_index"} /\ bricks = <<>>)
    => /\ pc # "panic_overflow"
       /\ ~GridSizeOverflows(min_bounds, max_bounds)
       /\ pc = "done" => save_bricks = <<>>

(***************************************************************************)
(* Further properties of the simplification (Spec).                        *)
(***************************************************************************)
\* The bricks the merger has pushed: those after the ramp bricks, of which
\* there is one per claimed cell.
MergedBricks ==
    IF Simplifying /\ pc \in {"scan", "done"}
    THEN SubSeq(save_bricks, Cardinality(occupied) + 1, Len(save_bricks))
    ELSE <<>>

\* C11 as stated: every brick the merger emits carries brick_asset_index,
\* in every output mode.
C11_MergedAlwaysBrickAsset ==
    \A k \in 1..Len(MergedBricks) :
        MergedBricks[k].asset_name_index = brick_asset_index

\* C11 amended: every brick the merger emits carries the asset of the
\* output mode, brick_asset_index in the modes Brick and Plate and
\* microbrick_asset_index in the mode MicroBrick.
C11_MergedModeAsset ==
    \A k \in 1..Len(MergedBricks) :
        MergedBricks[k].asset_name_index =
            IF mode = "MicroBrick" THEN microbrick_asset_index
            ELSE brick_asset_index

C11_Witness ==
    /\ pc = "done"
    /\ mode = "MicroBrick"
    /\ simplify
    /\ Len(MergedBricks) >= 2
    /\ MergedBricks[1].asset_name_index = microbrick_asset_index

\* The Grid Builder has filled the grid and nothing has touched it since.
GridBuilt ==
    /\ Simplifying
    /\ bricks # <<>>
    /\ \/ pc = "ramps"
       \/ pc = "scan" /\ scan_t = 0 /\ ~rampify

\* The smallest and the largest index of the occupied cells along an axis.
LowestOccupied(a) == MinOf({c[a] : c \in OccupiedCells(grid, grid_size)})
HighestOccupied(a) == MaxOf({c[a] : c \in OccupiedCells(grid, grid_size)})

\* Every brick covers at least one cell along every axis.
EveryBrickHasCells ==
    \A k \in 1..Len(bricks) : \A a \in 1..3 :
        CellExtent(bricks[k], SimplifyUnit)[a] >= 1

\* C12 as stated: along each axis the grid is as long as the span of the
\* occupied cells, so every boundary plane holds an occupied cell.
C12_GridTight ==
    (GridBuilt /\ OccupiedIndices(grid) # {}) =>
        \A a \in 1..3 :
            /\ grid_size[a] = HighestOccupied(a) - LowestOccupied(a) + 1
            /\ LowestOccupied(a) = 0
            /\ HighestOccupied(a) = grid_size[a] - 1

\* C12 amended: when every brick covers at least one cell, the grid is one
\* cell longer along each axis than the span of the occupied cells: the
\* lowest plane holds an occupied cell and the highest plane is empty, and
\* a single unit brick gives a 2x2x2 grid.
C12_GridOneLonger ==
    (GridBuilt /\ EveryBrickHasCells) =>
        /\ OccupiedIndices(grid) # {}
        /\ \A a \in 1..3 :
              /\ grid_size[a] = HighestOccupied(a) - LowestOccupied(a) + 2
              /\ LowestOccupied(a) = 0
              /\ HighestOccupied(a) = grid_size[a] - 2
        /\ (Len(bricks) = 1 /\ CellExtent(bricks[1], SimplifyUnit) = <<1, 1, 1>>)
               => grid_size = <<2, 2, 2>>

\* One unit brick, and a 2x2x2 grid for it.
C12_Witness ==
    /\ GridBuilt
    /\ Len(bricks) = 1
    /\ CellExtent(bricks[1], SimplifyUnit) = <<1, 1, 1>>
    /\ grid_size = <<2, 2, 2>>
    /\ Cardinality(OccupiedIndices(grid)) = 1

\* C13: every box the merger emits has each extent between 1 and 64, and
\* when the scan started from a solid one-colored block that is 65 or more
\* cells long along an axis, the block is split and the first box is
\* exactly 64 cells long along that axis.
C13_ExtentCap ==
    /\ \A k \in 1..Len(boxes) : \A a \in 1..3 :
          boxes[k].ext[a] >= 1 /\ boxes[k].ext[a] <= 64
    /\ (pc = "done" /\ simplify /\ ~rampify /\ SolidBlock(merge_input, grid_size))
          => \A a \in 1..3 :
                SpanOf(OccupiedCells(merge_input, grid_size))[a] >= 65
                    => /\ Len(boxes) >= 2
                       /\ boxes[1].ext[a] = 64

\* A column of 65 cells, emitted as a box of 64 and a box of 1.
C13_Witness ==
    /\ pc = "done"
    /\ simplify
    /\ ~rampify
    /\ SolidBlock(merge_input, grid_size)
    /\ SpanOf(OccupiedCells(merge_input, grid_size)) = <<1, 1, 65>>
    /\ Len(boxes) = 2
    /\ boxes[1].ext = <<1, 1, 64>>
    /\ boxes[2].ext = <<1, 1, 1>>

\* The world lattice of the simplification: one cell is two units wide.
WorldUnit == <<2 * SimplifyUnit[1], 2 * SimplifyUnit[1], 2 * SimplifyUnit[2]>>

\* Both faces of a brick lie on the world lattice, along every axis.
OnLattice(b) ==
    \A a \in 1..3 :
        /\ (b.position[a] - b.size[a]) % WorldUnit[a] = 0
        /\ (b.position[a] + b.size[a]) % WorldUnit[a] = 0

\* The lattice cells within [position - size, position + size] along every
\* axis, for a brick on the lattice.
WorldCells(b) ==
    LET lo(a) == (b.position[a] - b.size[a]) \div WorldUnit[a]
        hi(a) == (b.position[a] + b.size[a]) \div WorldUnit[a]
    IN  (lo(1)..(hi(1) - 1)) \X (lo(2)..(hi(2) - 1)) \X (lo(3)..(hi(3) - 1))

WorldRegion(bs) == UNION {WorldCells(bs[k]) : k \in 1..Len(bs)}

\* No two placed unit bricks are at the same position.
NonOverlapping(bs) ==
    \A i, j \in 1..Len(bs) : i # j => bs[i].position # bs[j].position

\* C14: with simplify and without rampify, for a placement without
\* overlaps, the bricks returned cover exactly the world region the placed
\* unit bricks covered; both lie on the world lattice, so the regions are
\* compared cell by cell.
C14_RebaseRestoresWorld ==
    (pc = "done" /\ simplify /\ ~rampify /\ NonOverlapping(bricks)) =>
        /\ \A k \in 1..Len(bricks) : OnLattice(bricks[k])
        /\ \A k \in 1..Len(save_bricks) : OnLattice(save_bricks[k])
        /\ WorldRegion(save_bricks) = WorldRegion(bricks)

\* A merge of several unit bricks, some of them at negative cells.
C14_Witness ==
    /\ pc = "done"
    /\ simplify
    /\ ~rampify
    /\ NonOverlapping(bricks)
    /\ min_bounds[1] < 0
    /\ min_bounds[3] < 0
    /\ Len(save_bricks) >= 1
    /\ Len(save_bricks) < Len(bricks)
    /\ WorldRegion(save_bricks) = WorldRegion(bricks)

\* The steps of the ramp hand-off, as changes of the state.
RampsAppended == pc = "ramps" /\ pc' = "remove"
CellsCleared == pc = "remove" /\ pc' = "scan"
BoxEmitted == Len(boxes') > Len(boxes)

\* C15: when rampify is set, the ramp bricks of both calls are appended in
\* one step that leaves the grid as built and precedes every other brick;
\* the grid changes next only by the clearing of the claimed cells, which
\* comes after that step and is the only way into the scan; and every box
\* is emitted during the scan and contains no claimed cell.
C15_RampHandoffOrder ==
    [][rampify =>
        /\ RampsAppended =>
              /\ grid' = grid
              /\ save_bricks = <<>>
              /\ boxes = <<>>
              /\ Len(save_bricks') = Cardinality(occupied')
              /\ \A n \in occupied' : grid[n] # NoneCell
        /\ (pc' = "remove" /\ pc # "remove") => RampsAppended
        /\ CellsCleared =>
              /\ save_bricks' = save_bricks
              /\ Len(save_bricks) = Cardinality(occupied)
              /\ boxes = <<>>
              /\ \A n \in DOMAIN grid :
                    grid'[n] = IF n \in occupied THEN NoneCell ELSE grid[n]
        /\ (pc' = "scan" /\ pc # "scan") => CellsCleared
        /\ (grid' # grid /\ pc \in {"ramps", "remove"}) => CellsCleared
        /\ BoxEmitted =>
              /\ pc = "scan"
              /\ BoxIndices(boxes'[Len(boxes')].pos, boxes'[Len(boxes')].ext,
                            grid_size) \cap occupied = {}
    ]_vars

\* A finished run in which a ramp claimed a cell and the merger emitted
\* boxes for the rest.
C15_Witness ==
    /\ pc = "done"
    /\ rampify
    /\ occupied # {}
    /\ Len(save_bricks) > Cardinality(occupied)
    /\ boxes # <<>>
    /\ \A k \in 1..Len(boxes) : BoxCells(boxes[k]) \cap occupied = {}

(***************************************************************************)
(* The matrix of the Rotation Mapper (SpecRot).                            *)
(***************************************************************************)
\* The fields of the code, read off the byte.
AxisX == rot_byte % 4
AxisY == (rot_byte \div 4) % 4
AxisZ == 3 - AxisX - AxisY
SignX == IF (rot_byte \div 16) % 2 = 1 THEN -1 ELSE 1
SignY == IF (rot_byte \div 32) % 2 = 1 THEN -1 ELSE 1
SignZ == IF (rot_byte \div 64) % 2 = 1 THEN -1 ELSE 1

WellFormed == AxisX \in 0..2 /\ AxisY \in 0..2 /\ AxisX # AxisY

\* Every row and every column of m has one non-zero entry, and it is 1 or -1.
SignedPermutation(m) ==
    /\ \A r \in 1..3 : \A c \in 0..2 : m[r][c] \in {-1, 0, 1}
    /\ \A r \in 1..3 : Cardinality({c \in 0..2 : m[r][c] # 0}) = 1
    /\ \A c \in 0..2 : Cardinality({r \in 1..3 : m[r][c] # 0}) = 1

\* C16: for a well-formed code the matrix is a signed permutation matrix,
\* with row X at column r1_i signed by bit 4, row Y at column r2_i signed by
\* bit 5 and row Z at the remaining column signed by bit 6; the call
\* returns the position permuted and signed accordingly, and the position
\* is recovered from the result, so the transform is one to one.
C16_SignedPermutation ==
    (RotCalled /\ WellFormed) =>
        /\ SignedPermutation(RotationMatrix(rot_byte))
        /\ RotationMatrix(rot_byte)[1][AxisX] = SignX
        /\ RotationMatrix(rot_byte)[2][AxisY] = SignY
        /\ RotationMatrix(rot_byte)[3][AxisZ] = SignZ
        /\ rot_out = Ok(<<SignX * rot_pos[AxisX + 1], SignY * rot_pos[AxisY + 1],
                          SignZ * rot_pos[AxisZ + 1]>>)
        /\ rot_pos[AxisX + 1] = SignX * rot_out.pos[1]
        /\ rot_pos[AxisY + 1] = SignY * rot_out.pos[2]
        /\ rot_pos[AxisZ + 1] = SignZ * rot_out.pos[3]

\* Code 82: X = -z, Y = x, Z = -y.
C16_Witness ==
    /\ RotCalled
    /\ WellFormed
    /\ rot_byte = 82
    /\ rot_pos = <<1, -1, 2>>
    /\ rot_out = Ok(<<-2, 1, 1>>)

====
